---- MODULE Spec2Model ----
(***************************************************************************)
(* Rader's algorithm for prime-length DFTs (src/src/fft/src/fft_rader.c):  *)
(* plan creation, execution and destruction.                               *)
(*                                                                         *)
(* Numbers.  The code computes with complex samples (type TC).  The model  *)
(* computes exactly, in the prime field GF(m) with m = 1 (mod p(p-1)):     *)
(* such a field holds an element W of multiplicative order exactly p and   *)
(* an element V of order exactly p-1, which stand for exp(j*2*pi/p) and    *)
(* exp(j*2*pi/(p-1)).  Every identity between sums and products of roots   *)
(* of unity that holds for the complex numbers holds in GF(m); rounding    *)
(* ("within numeric tolerance") is not modelled.  A sample is an integer   *)
(* in 0..m-1.  The fixed-point build (LIQUID_FPM) stores a value t as      *)
(* t * 2^FracBits.                                                         *)
(***************************************************************************)
EXTENDS Integers, FiniteSets, Sequences, TLC

\* ---- bounds of the model ------------------------------------------------
MaxPrime   == 13    \* transform sizes: the primes up to MaxPrime
MaxAmp     == 2     \* impulses and ramps are scaled by 1..MaxAmp
MaxCalls   == 2     \* execute calls per plan
MaxPlans   == 2     \* create/destroy cycles

\* ---- numbers -------------------------------------------------------------
IsPrime(n) == n > 1 /\ \A d \in 2..(n-1) : n % d # 0

Primes == {n \in 2..MaxPrime : IsPrime(n)}

\* least prime m = 1 (mod p(p-1)) beyond the largest sum of test samples
Modulus ==
  [p \in Primes |->
     LET ok(m) == m > 2*p*p + 20 /\ IsPrime(m)
         cand  == {k * p * (p-1) + 1 : k \in 1..(4*p + 40)}
     IN  CHOOSE m \in cand : ok(m) /\ \A n \in cand : ok(n) => m <= n]

FAdd(a, b, m) == (a + b) % m
FMul(a, b, m) == (a * b) % m

RECURSIVE FPow(_, _, _)
FPow(a, e, m) ==
  IF e = 0 THEN 1 % m
  ELSE LET h == FPow(a, e \div 2, m)
       IN  IF e % 2 = 0 THEN FMul(h, h, m) ELSE FMul(FMul(h, h, m), a, m)

\* a / n in GF(m), n # 0: InvTab[m][n] is the inverse of n
InvTab == [m \in {Modulus[p] : p \in Primes} |->
             [a \in 1..(m-1) |-> FPow(a, m-2, m)]]

FDiv(a, n, m) == FMul(a, InvTab[m][n % m], m)

\* least element of multiplicative order exactly n in GF(m)
RootOfUnity(n, m) ==
  LET ord(a) == FPow(a, n, m) = 1 /\ \A d \in 1..(n-1) : FPow(a, d, m) # 1
  IN  CHOOSE a \in 1..(m-1) : ord(a) /\ \A b \in 1..(a-1) : ~ord(b)

\* WPow[p][e] = exp(j*2*pi*e/p),  VPow[p][e] = exp(j*2*pi*e/(p-1))
WPow == [p \in Primes |->
           LET w == RootOfUnity(p, Modulus[p])
           IN  [e \in 0..(p-1) |-> FPow(w, e, Modulus[p])]]

VPow == [p \in Primes |->
           LET v == RootOfUnity(p-1, Modulus[p])
           IN  [e \in 0..(p-2) |-> FPow(v, e, Modulus[p])]]

\* cexpf(_Complex_I * 2*M_PI * num / nfft), num any integer
cexpf(num, nfft) == WPow[nfft][num % nfft]

\* sum of f[0], ..., f[n-1] in GF(m)
RECURSIVE FSum(_, _, _)
FSum(f, n, m) == IF n = 0 THEN 0 ELSE FAdd(FSum(f, n-1, m), f[n-1], m)

\* ---- types and the external collaborators ---------------------------------
FFT_FORWARD == "FFT_FORWARD"
FFT_REVERSE == "FFT_REVERSE"
Directions  == {FFT_FORWARD, FFT_REVERSE}
NULL        == "NULL"

\* liquid_modpow(base, exp, n): base^exp mod n
RECURSIVE liquid_modpow(_, _, _)
liquid_modpow(base, e, n) ==
  IF e = 0 THEN 1 % n ELSE (base * liquid_modpow(base, e-1, n)) % n

\* liquid_primitive_root_prime(n) returns a generator of the multiplicative
\* group mod n; which one is not specified, so the model admits each.
PrimitiveRoots(n) ==
  {g \in 1..(n-1) : {liquid_modpow(g, k, n) : k \in 1..(n-1)} = 1..(n-1)}

\* the fixed-point representation of 1.0 (2^FracBits) and of a value t
FixedOneTab == [m \in {Modulus[p] : p \in Primes} |-> FPow(2, 16, m)]

FixedOne(m) == FixedOneTab[m]
float_to_fixed(t, m) == FMul(t, FixedOne(m), m)

\* CQ(_mul): the fixed-point complex product, (a*b) >> FracBits
CQ_mul(a, b, m) == FDiv(FMul(a, b, m), FixedOne(m), m)

\* FFT(_execute) of a sub-plan of length nfft-1, unnormalized:
\* out[k] = sum_j in[j] * exp(-/+ j*2*pi*j*k/(nfft-1))
SubTransform(dir, in, nfft) ==
  LET n == nfft - 1
      m == Modulus[nfft]
      tw(j, k) == IF dir = FFT_FORWARD THEN VPow[nfft][(n - ((j*k) % n)) % n]
                                       ELSE VPow[nfft][(j*k) % n]
  IN  [k \in 0..(n-1) |-> FSum([j \in 0..(n-1) |-> FMul(in[j], tw(j, k), m)], n, m)]

\* ---- plan creation (fft_rader.c, 46-112) ----------------------------------
\* faulty variant of SeqTable: base and exponent of liquid_modpow exchanged
SeqTable_swapped(g, nfft) == [i \in 0..(nfft-2) |-> liquid_modpow(i+1, g, nfft)]

\* lines 86-90: seq[i] = g^(i+1) mod nfft
SeqTable(g, nfft) == [i \in 0..(nfft-2) |-> liquid_modpow(g, i+1, nfft)]

\* faulty variant of KernelInput: the sign d of the exponent inverted
KernelInput_conjugate(fpm, direction, seq, nfft) ==
  LET d == IF direction = FFT_FORWARD THEN 1 ELSE -1
  IN  [i \in 0..(nfft-2) |->
         LET t == cexpf(d * seq[i], nfft)
         IN  IF fpm THEN float_to_fixed(t, Modulus[nfft]) ELSE t]

\* lines 95-103: x_prime[i] = exp(j*d*2*pi*seq[i]/nfft), d = -1 forward, +1 reverse
KernelInput(fpm, direction, seq, nfft) ==
  LET d == IF direction = FFT_FORWARD THEN -1 ELSE 1
  IN  [i \in 0..(nfft-2) |->
         LET t == cexpf(d * seq[i], nfft)
         IN  IF fpm THEN float_to_fixed(t, Modulus[nfft]) ELSE t]

\* the plan object as create leaves it (all allocations having succeeded)
NewPlan(fpm, nfft, dir, g) ==
  LET direction == IF dir = FFT_FORWARD THEN FFT_FORWARD ELSE FFT_REVERSE
      seq       == SeqTable(g, nfft)
      xp        == KernelInput(fpm, direction, seq, nfft)
      Xp        == SubTransform(FFT_FORWARD, xp, nfft)
  IN  [nfft |-> nfft, direction |-> direction, seq |-> seq,
       x_prime |-> xp, X_prime |-> Xp, R |-> Xp,
       fft |-> "fft", ifft |-> "ifft"]

\* ---- execution (fft_rader.c, 131-185) -------------------------------------
\* lines 136-140: x_prime[i] = x[seq[nfft-1-i-1]]
ForwardPermute(qq, xx) ==
  [qq EXCEPT !.x_prime = [i \in 0..(qq.nfft-2) |-> xx[qq.seq[qq.nfft-1-i-1]]]]

\* lines 143 and 158: run a sub-plan
ExecuteFFT(qq) ==
  [qq EXCEPT !.X_prime = SubTransform(FFT_FORWARD, qq.x_prime, qq.nfft)]

ExecuteIFFT(qq) ==
  [qq EXCEPT !.x_prime = SubTransform(FFT_REVERSE, qq.X_prime, qq.nfft)]

\* lines 146-154: the pointwise product with R
PointwiseMultiply(fpm, qq) ==
  LET m == Modulus[qq.nfft]
  IN  [qq EXCEPT !.X_prime =
         [i \in 0..(qq.nfft-2) |->
            IF fpm
              THEN FAdd(qq.X_prime[i], CQ_mul(qq.X_prime[i], qq.R[i], m), m)
              ELSE FMul(qq.X_prime[i], qq.R[i], m)]]

\* faulty variant of DCTerm: the loop stops one sample early
DCTerm_short(qq, xx, yy) ==
  [yy EXCEPT ![0] = FAdd(0, FSum(xx, qq.nfft - 1, Modulus[qq.nfft]), Modulus[qq.nfft])]

\* faulty variant of DCTerm: y[0] is not cleared before the accumulation
DCTerm_uncleared(qq, xx, yy) ==
  [yy EXCEPT ![0] = FAdd(yy[0], FSum(xx, qq.nfft, Modulus[qq.nfft]), Modulus[qq.nfft])]

\* lines 160-172: y[0] = 0, then y[0] += x[i] for i = 0..nfft-1
DCTerm(qq, xx, yy) ==
  [yy EXCEPT ![0] = FAdd(0, FSum(xx, qq.nfft, Modulus[qq.nfft]), Modulus[qq.nfft])]

\* faulty variant of OutputSample: the offset x[0] is not added
OutputSample_nooffset(qq, xx, i) ==
  FDiv(qq.x_prime[i], qq.nfft - 1, Modulus[qq.nfft])

\* faulty variant of OutputSample: the convolution result is not added
OutputSample_noconv(qq, xx, i) == xx[0]

\* lines 179-182: x_prime[i] / (nfft-1) + x[0]
OutputSample(qq, xx, i) ==
  LET m == Modulus[qq.nfft]
  IN  FAdd(FDiv(qq.x_prime[i], qq.nfft - 1, m), xx[0], m)

\* lines 175-184: y[seq[i]] = x_prime[i]/(nfft-1) + x[0], i ascending
RECURSIVE ReversePermuteFrom(_, _, _, _)
ReversePermuteFrom(i, qq, xx, yy) ==
  IF i >= qq.nfft - 1 THEN yy
  ELSE LET k == qq.seq[i]
       IN  ReversePermuteFrom(i+1, qq, xx,
                              [yy EXCEPT ![k] = OutputSample(qq, xx, i)])

ReversePermute(qq, xx, yy) == ReversePermuteFrom(0, qq, xx, yy)

\* the whole of execute_rader: the plan and the output buffer it leaves
ExecuteRader(fpm, qq, xx, yy) ==
  LET s1 == ForwardPermute(qq, xx)
      s2 == ExecuteFFT(s1)
      s3 == PointwiseMultiply(fpm, s2)
      s4 == ExecuteIFFT(s3)
  IN  [q |-> s4, y |-> ReversePermute(s4, xx, DCTerm(s4, xx, yy))]

\* ---- destruction (fft_rader.c, 115-128) -----------------------------------
\* the blocks create acquires, in the order of their allocation
AllocSites == <<"q", "x_prime", "X_prime", "fft", "ifft", "seq", "R">>

\* faulty variant of DestroyOrder: R is not released
DestroyOrder_leakR == <<"seq", "x_prime", "X_prime", "fft", "ifft", "q">>

\* the blocks destroy releases, in order: four free(), two FFT(_destroy_plan),
\* free(_q)
DestroyOrder == <<"seq", "R", "x_prime", "X_prime", "fft", "ifft", "q">>

\* release blocks[i..] from heap h: releasing a NULL sub-plan dereferences it,
\* releasing a block that is not live is a double free
RECURSIVE FreeFrom(_, _, _, _)
FreeFrom(i, blocks, qq, h) ==
  IF i > Len(blocks) THEN [heap |-> h, fault |-> "none"]
  ELSE LET b == blocks[i]
       IN  IF b \in {"fft", "ifft"} /\ qq[b] = NULL
             THEN [heap |-> h, fault |-> "null_deref"]
           ELSE IF b \notin h
             THEN [heap |-> h, fault |-> "double_free"]
           ELSE FreeFrom(i+1, blocks, qq, h \ {b})

DestroyPlanRader(qq, h) == FreeFrom(1, DestroyOrder, qq, h)

\* ---- creation with its allocations ----------------------------------------
NoPlan == [nfft |-> 0, direction |-> NULL, seq |-> <<>>, x_prime |-> <<>>,
           X_prime |-> <<>>, R |-> <<>>, fft |-> NULL, ifft |-> NULL]

SeqToSet(sq) == {sq[i] : i \in 1..Len(sq)}

\* No allocation is checked.  With allocation `fail` returning NULL the first
\* use of the NULL pointer is: q at line 55; x_prime at the store of line
\* 99/101; seq at the store of line 90; X_prime and fft inside FFT(_execute)
\* at line 104; R in memmove at line 108.  A NULL ifft is first used by
\* execute (line 158): create returns the plan.  FaultAfter(fail) is the last
\* allocation made before that use.
FaultAfter(fail) ==
  CASE fail = "q" -> "q"
    [] fail = "seq" -> "seq"
    [] fail \in {"x_prime", "X_prime", "fft"} -> "seq"
    [] fail = "R" -> "R"

Upto(site) ==
  LET idx == CHOOSE i \in 1..Len(AllocSites) : AllocSites[i] = site
  IN  {AllocSites[i] : i \in 1..idx}

\* create_plan_rader: the plan returned (NoPlan: none), the blocks it leaves
\* allocated, and the fault it ends in
CreatePlanRader(fpm, nfft, dir, g, fail) ==
  IF fail = "none"
    THEN [q |-> NewPlan(fpm, nfft, dir, g), got |-> SeqToSet(AllocSites),
          fault |-> "none"]
  ELSE IF fail = "ifft"
    THEN [q |-> [NewPlan(fpm, nfft, dir, g) EXCEPT !.ifft = NULL],
          got |-> SeqToSet(AllocSites) \ {"ifft"}, fault |-> "none"]
  ELSE [q |-> NoPlan, got |-> Upto(FaultAfter(fail)) \ {fail},
        fault |-> "null_deref"]

\* ---- the caller's buffers -------------------------------------------------
Impulse(nfft, n, a) == [k \in 0..(nfft-1) |-> IF k = n THEN a ELSE 0]
Ramp(nfft, a)       == [k \in 0..(nfft-1) |-> a * (k+1)]
Tone(nfft)          == [k \in 0..(nfft-1) |-> WPow[nfft][k]]
Fill(nfft, v)       == [k \in 0..(nfft-1) |-> v]

\* the inputs: the unit impulse at each index (a basis: execute_rader is linear
\* in x), scaled impulses at index 0, scaled ramps 1, 2, ..., nfft, a complex
\* exponential, and silence
Inputs(nfft) ==
  {Impulse(nfft, n, 1) : n \in 0..(nfft-1)}
    \cup {Impulse(nfft, 0, a) : a \in 1..MaxAmp}
    \cup {Ramp(nfft, a) : a \in 1..MaxAmp}
    \cup {Tone(nfft), Fill(nfft, 0)}

Threads == {1, 2}

\* ---- state ----------------------------------------------------------------
VARIABLES
  LIQUID_FPM,  \* the build: TRUE fixed point, FALSE floating point
  nfft,        \* the transform size the caller's buffers have
  x, y,        \* the caller's input and output buffers
  q,           \* the plan (NoPlan: none)
  heap,        \* the live allocations
  fault,       \* "none", or how the process died
  failed,      \* the allocation that returned NULL, or "none"
  last,        \* the last operation completed
  nexec,       \* execute calls completed on the plan
  nplans,      \* plans created
  pc           \* each thread's position in execute_rader

vars == <<LIQUID_FPM, nfft, x, y, q, heap, fault, failed, last, nexec, nplans, pc>>

CallerBlocks == {"x", "y"}

Init ==
  /\ LIQUID_FPM \in BOOLEAN
  /\ nfft \in Primes
  /\ x \in Inputs(nfft)
  /\ y = Fill(nfft, Modulus[nfft] - 1)
  /\ q = NoPlan
  /\ heap = CallerBlocks
  /\ fault = "none"
  /\ failed = "none"
  /\ last = "init"
  /\ nexec = 0
  /\ nplans = 0
  /\ pc = [t \in Threads |-> "idle"]

Idle == \A t \in Threads : pc[t] = "idle"

\* fft_create_plan_rader(nfft, x, y, dir, flags)
CreatePlan ==
  \E dir \in Directions, g \in PrimitiveRoots(nfft),
     fail \in {"none"} \cup SeqToSet(AllocSites) :
    LET r == CreatePlanRader(LIQUID_FPM, nfft, dir, g, fail)
    IN  /\ fault = "none" /\ q = NoPlan /\ Idle
        /\ nplans < MaxPlans
        /\ q' = r.q
        /\ heap' = heap \cup r.got
        /\ fault' = r.fault
        /\ failed' = fail
        /\ last' = IF r.fault = "none" THEN "create" ELSE "fault"
        /\ nexec' = 0
        /\ nplans' = nplans + 1
        /\ UNCHANGED <<LIQUID_FPM, nfft, x, y, pc>>

\* fft_execute_rader(q), run to completion
Execute ==
  /\ fault = "none" /\ q # NoPlan /\ Idle
  /\ nexec < MaxCalls
  /\ IF q.ifft = NULL
       THEN /\ q' = PointwiseMultiply(LIQUID_FPM, ExecuteFFT(ForwardPermute(q, x)))
            /\ fault' = "null_deref"
            /\ last' = "fault"
            /\ UNCHANGED <<y, nexec>>
       ELSE LET r == ExecuteRader(LIQUID_FPM, q, x, y)
            IN  /\ q' = r.q
                /\ y' = r.y
                /\ last' = "execute"
                /\ nexec' = nexec + 1
                /\ UNCHANGED fault
  /\ UNCHANGED <<LIQUID_FPM, nfft, x, heap, failed, nplans, pc>>

\* the caller stores new samples in x between calls (stores before the first
\* call are the choice of x in Init; stores in a row are one store)
WriteX ==
  \E v \in Inputs(nfft) :
    /\ fault = "none" /\ q # NoPlan /\ Idle
    /\ last = "execute"
    /\ nexec < MaxCalls
    /\ x' = v
    /\ last' = "write_x"
    /\ UNCHANGED <<LIQUID_FPM, nfft, y, q, heap, fault, failed, nexec, nplans, pc>>

\* fft_destroy_plan_rader(q), called after create or after an execute (a
\* store in x before it changes nothing the plan holds)
DestroyPlan ==
  LET r == DestroyPlanRader(q, heap)
  IN  /\ fault = "none" /\ q # NoPlan /\ Idle
      /\ last \in {"create", "execute"}
      /\ heap' = r.heap
      /\ fault' = r.fault
      /\ last' = IF r.fault = "none" THEN "destroy" ELSE "fault"
      /\ q' = NoPlan
      /\ nexec' = 0
      /\ UNCHANGED <<LIQUID_FPM, nfft, x, y, failed, nplans, pc>>

Next == CreatePlan \/ Execute \/ WriteX \/ DestroyPlan

Spec == Init /\ [][Next]_vars

\* ---- two threads calling execute_rader on the one plan --------------------
\* Each thread runs the five steps of execute_rader in order; the steps of the
\* two threads interleave.  x is not written.
Calling == Cardinality({t \in Threads : pc[t] # "idle"})

Permute(t) ==
  /\ fault = "none" /\ q # NoPlan
  /\ pc[t] = "idle"
  /\ nexec + Calling < MaxCalls
  /\ q' = ForwardPermute(q, x)
  /\ pc' = [pc EXCEPT ![t] = "permuted"]
  /\ UNCHANGED <<LIQUID_FPM, nfft, x, y, heap, fault, failed, last, nexec, nplans>>

SubFFT(t) ==
  /\ fault = "none"
  /\ pc[t] = "permuted"
  /\ q' = ExecuteFFT(q)
  /\ pc' = [pc EXCEPT ![t] = "transformed"]
  /\ UNCHANGED <<LIQUID_FPM, nfft, x, y, heap, fault, failed, last, nexec, nplans>>

Multiply(t) ==
  /\ fault = "none"
  /\ pc[t] = "transformed"
  /\ q' = PointwiseMultiply(LIQUID_FPM, q)
  /\ pc' = [pc EXCEPT ![t] = "multiplied"]
  /\ UNCHANGED <<LIQUID_FPM, nfft, x, y, heap, fault, failed, last, nexec, nplans>>

SubIFFT(t) ==
  /\ fault = "none"
  /\ pc[t] = "multiplied"
  /\ IF q.ifft = NULL
       THEN /\ fault' = "null_deref"
            /\ last' = "fault"
            /\ UNCHANGED <<q, pc>>
       ELSE /\ q' = ExecuteIFFT(q)
            /\ pc' = [pc EXCEPT ![t] = "inverted"]
            /\ UNCHANGED <<fault, last>>
  /\ UNCHANGED <<LIQUID_FPM, nfft, x, y, heap, failed, nexec, nplans>>

WriteY(t) ==
  /\ fault = "none"
  /\ pc[t] = "inverted"
  /\ y' = ReversePermute(q, x, DCTerm(q, x, y))
  /\ pc' = [pc EXCEPT ![t] = "idle"]
  /\ last' = "execute"
  /\ nexec' = nexec + 1
  /\ UNCHANGED <<LIQUID_FPM, nfft, x, q, heap, fault, failed, nplans>>

NextConc ==
  \/ CreatePlan
  \/ \E t \in Threads :
       Permute(t) \/ SubFFT(t) \/ Multiply(t) \/ SubIFFT(t) \/ WriteY(t)

SpecConc == Init /\ [][NextConc]_vars

\* ---- properties -----------------------------------------------------------
\* the direct O(n^2) DFT: out[k] = sum_j xx[j] * exp(sgn * j*2*pi*j*k/n)
DFT(xx, n, sgn) ==
  LET m == Modulus[n]
  IN  [k \in 0..(n-1) |->
         FSum([j \in 0..(n-1) |-> FMul(xx[j], cexpf(sgn * j * k, n), m)], n, m)]

\* the complex product of the build: CQ(_mul) in fixed point, * in floating point
Product(fpm, a, b, m) == IF fpm THEN CQ_mul(a, b, m) ELSE FMul(a, b, m)

\* a value as the build stores it
Stored(fpm, t, m) == IF fpm THEN float_to_fixed(t, m) ELSE t

Executed == last = "execute"

\* C1: after create_plan_rader(p, x, y, FORWARD) and an execute_rader, every
\* y[k] is the direct DFT sum over n of x[n]*exp(-i*2*pi*n*k/p).
C1_MatchesDirectDFT ==
  (Executed /\ q.direction = FFT_FORWARD) => y = DFT(x, nfft, -1)

\* In the floating-point build the forward plan computes the direct DFT and the
\* reverse plan the direct inverse (unnormalized) DFT.
FloatBuildMatchesDFT ==
  (Executed /\ ~LIQUID_FPM) =>
     y = DFT(x, nfft, IF q.direction = FFT_FORWARD THEN -1 ELSE 1)

\* In the floating-point build R[0] = -1 and no R[k] is 0.
FloatKernelInvariant ==
  (q # NoPlan /\ ~LIQUID_FPM) =>
     /\ q.R[0] = Modulus[nfft] - 1
     /\ \A k \in 0..(nfft-2) : q.R[k] # 0

\* C2: the table seq of a plan has p-1 entries, indexed 0..p-2, and is a
\* bijection onto 1..p-1: every value of 1..p-1 occurs, none occurs twice, and
\* no entry is 0 or >= p.
C2_SeqIsBijection ==
  q # NoPlan =>
     /\ DOMAIN q.seq = 0..(nfft-2)
     /\ \A i \in 0..(nfft-2) : q.seq[i] \in 1..(nfft-1)
     /\ \A v \in 1..(nfft-1) : \E i \in 0..(nfft-2) : q.seq[i] = v
     /\ \A i, j \in 0..(nfft-2) : q.seq[i] = q.seq[j] => i = j

C2_Witness ==
  q # NoPlan /\ nfft = 7 /\ q.seq[0] = 5 /\ q.seq[1] = 4 /\ q.seq[5] = 1

\* C3: after every execute_rader call y[0] is the sum of the p samples of x
\* (the reverse permutation having left y[0] alone).
C3_DCTermIsSum ==
  Executed => y[0] = FSum(x, nfft, Modulus[nfft])

C3_Witness ==
  Executed /\ nfft = 5 /\ x = Ramp(5, 1) /\ y[0] = 15

\* C4: executing the plan on an impulse at index 0 (x[0] = a, the rest 0)
\* yields y[k] = a for every k; a = 1 is the unit impulse.
C4_ImpulseIsFlat ==
  \A a \in 1..MaxAmp :
     (Executed /\ x = Impulse(nfft, 0, a)) => y = Fill(nfft, a)

C4_Witness ==
  Executed /\ nfft = 5 /\ x = Impulse(5, 0, 1) /\ y = Fill(5, 1)

\* C5: when an allocation of create_plan_rader fails, creation aborts: the
\* process does not fault on a NULL pointer, no plan is returned, and nothing
\* acquired before the failure stays allocated.
C5_AllocFailureAborts ==
  failed # "none" => (fault = "none" /\ q = NoPlan /\ heap = CallerBlocks)

\* C6: destroy_plan_rader releases every block create_plan_rader acquired,
\* each once, leaves the caller's x and y allocated and does not write them:
\* after each destroy the live allocations are those from before the plan was
\* created.
C6_DestroyReleasesAll ==
  /\ [](/\ fault # "double_free"
        /\ CallerBlocks \subseteq heap
        /\ last = "destroy" => heap = CallerBlocks)
  /\ [][last' = "destroy" => (x' = x /\ y' = y)]_vars

C6_Witness ==
  last = "destroy" /\ nplans = 2 /\ heap = CallerBlocks

\* what one call of execute_rader, run alone, makes of the present x
Serial == ExecuteRader(LIQUID_FPM, q, x, y)

Quiescent == Idle /\ Executed /\ q # NoPlan

\* C7: with the calls of two threads interleaved, a call that ran alone leaves
\* the serial output, and once all calls have returned y is the serial output
\* exactly when the shared scratch X_prime is the serial one; C7_Witness is the
\* state, reached by an interleaving with x unchanged, in which x_prime,
\* X_prime and y all differ from what serialized calls produce.
C7_ScratchDecidesOutput ==
  Quiescent =>
     /\ (y = Serial.y) <=> (q.X_prime = Serial.q.X_prime)
     /\ nexec = 1 => y = Serial.y

C7_Witness ==
  /\ Quiescent /\ nexec = 2
  /\ y # Serial.y
  /\ q.X_prime # Serial.q.X_prime
  /\ q.x_prime # Serial.q.x_prime

\* C8: the pointwise-multiply step replaces every X_prime[i] by the complex
\* product of its previous value and R[i], in either build.
C8_MultiplyReplaces ==
  [][\A t \in Threads :
        (pc[t] = "transformed" /\ pc'[t] = "multiplied") =>
           \A i \in 0..(nfft-2) :
              q'.X_prime[i] =
                 Product(LIQUID_FPM, q.X_prime[i], q.R[i], Modulus[nfft])]_vars

\* C9 as stated: the i-th kernel input in x_prime is exp(-i*sign*2*pi*seq[i]/p),
\* sign = -1 forward and +1 reverse (w^(+seq[i]) forward, w^(-seq[i]) reverse).
C9_KernelInputAsStated ==
  last = "create" =>
     \A i \in 0..(nfft-2) :
        LET sign == IF q.direction = FFT_FORWARD THEN -1 ELSE 1
        IN  q.x_prime[i] =
              Stored(LIQUID_FPM, cexpf((-sign) * q.seq[i], nfft), Modulus[nfft])

\* C9 amended: the i-th kernel input in x_prime is exp(+i*sign*2*pi*seq[i]/p),
\* sign = -1 forward and +1 reverse (w^(-seq[i]) forward, w^(+seq[i]) reverse).
C9_KernelInput ==
  last = "create" =>
     \A i \in 0..(nfft-2) :
        LET sign == IF q.direction = FFT_FORWARD THEN -1 ELSE 1
        IN  q.x_prime[i] =
              Stored(LIQUID_FPM, cexpf(sign * q.seq[i], nfft), Modulus[nfft])

C9_Witness ==
  /\ last = "create" /\ nfft = 5 /\ ~LIQUID_FPM
  /\ q.direction = FFT_FORWARD
  /\ q.seq[0] = 2
  /\ q.x_prime[0] = WPow[5][3]
  /\ q.x_prime[0] # WPow[5][2]

\* the plan create_plan_rader makes for the size, direction and primitive
\* root (seq[0] = g) of the present plan
Fresh == NewPlan(LIQUID_FPM, nfft, q.direction, q.seq[0])

\* C10: after any sequence of execute_rader calls, x changing between them,
\* seq and R are those of creation and the y of each call is the y a newly
\* created plan produces for the same x.
C10_HistoryIndependent ==
  (q # NoPlan /\ last \in {"create", "execute", "write_x"}) =>
     /\ q.seq = Fresh.seq
     /\ q.R = Fresh.R
     /\ Executed => y = ExecuteRader(LIQUID_FPM, Fresh, x, Fill(nfft, 0)).y

C10_Witness ==
  /\ Executed /\ nexec = 2
  /\ q.x_prime # Fresh.x_prime
  /\ q.X_prime # Fresh.X_prime
  /\ y = ExecuteRader(LIQUID_FPM, Fresh, x, Fill(nfft, 0)).y

====
